---- MODULE Spec2Model ----
(***************************************************************************)
(* Model of the documentation search engine of strands-doc-assistant:      *)
(* DocumentationProcessor (docs_processor.py), DocumentSearchTool (app.py) *)
(* and DocumentationAssistant.search_docs (simplified_app.py), with the   *)
(* read operations and the interactive loops of main.py, app.py and        *)
(* simplified_app.py.                                                      *)
(*                                                                         *)
(* Text (file content, paths, queries, keywords) is a sequence of          *)
(* one-character strings, so that lower-casing, substring counting,        *)
(* splitting, slicing and character replacement are computed as Python     *)
(* computes them.                                                          *)
(***************************************************************************)
EXTENDS Integers, Sequences, FiniteSets, TLC

VARIABLES rootExists, rootIsFile, fs, index, indexFile, out, pass, session, other

vars == <<rootExists, rootIsFile, fs, index, indexFile, out, pass, session, other>>

(***************************************************************************)
(* Bounds of the model and constants of the program.                       *)
(***************************************************************************)
MaxQueryLen == 3

MaxLimit == 2

PreviewLen == 200

MinWordLen == 3

\* The most distinct long words a generated text holds
MaxTextWords == 22

TopKeywords == 20

(***************************************************************************)
(* Python str operations.                                                  *)
(***************************************************************************)
LowerChar(c) ==
    IF c = "A" THEN "a" ELSE IF c = "B" THEN "b" ELSE IF c = "T" THEN "t" ELSE c

Lower(s) == [i \in 1..Len(s) |-> LowerChar(s[i])]

SpaceChars == {" ", "\n"}

WordChars == {"a", "b", "t", "A", "B", "T", "_"}

IsSpace(c) == c \in SpaceChars

MatchAt(s, t, i) ==
    /\ i + Len(t) - 1 <= Len(s)
    /\ \A j \in 1..Len(t) : s[i + j - 1] = t[j]

Contains(s, t) == \E i \in 1..(Len(s) - Len(t) + 1) : MatchAt(s, t, i)

EndsWith(s, t) == Len(t) <= Len(s) /\ MatchAt(s, t, Len(s) - Len(t) + 1)

Max(S) == CHOOSE x \in S : \A y \in S : y <= x

Min(S) == CHOOSE x \in S : \A y \in S : x <= y

\* The occurrences of t in s from position i on, left to right, each starting
\* after the end of the one before
RECURSIVE CountFrom(_, _, _)
CountFrom(s, t, i) ==
    LET hits == {j \in i..(Len(s) - Len(t) + 1) : MatchAt(s, t, j)}
    IN  IF hits = {} THEN 0 ELSE 1 + CountFrom(s, t, Min(hits) + Len(t))

\* str.count: non-overlapping occurrences; the empty string occurs len+1 times.
Count(s, t) == IF t = <<>> THEN Len(s) + 1 ELSE CountFrom(s, t, 1)

\* The maximal runs, left to right, of the characters of s that are in the set
\* chars (inside = TRUE) or outside it (inside = FALSE)
Runs(s, chars, inside) ==
    LET In(c) == (c \in chars) = inside
        starts == {i \in 1..Len(s) : In(s[i]) /\ (i = 1 \/ ~In(s[i - 1]))}
        start(k) == CHOOSE i \in starts : Cardinality({j \in starts : j < i}) = k - 1
        end(i) == Min({j \in i..Len(s) : j = Len(s) \/ ~In(s[j + 1])})
    IN  [k \in 1..Cardinality(starts) |-> SubSeq(s, start(k), end(start(k)))]

\* str.split() without arguments: runs of whitespace separate, no empty terms.
Split(s) == Runs(s, SpaceChars, FALSE)

Replace(s, old, new) == [i \in 1..Len(s) |-> IF s[i] = old THEN new ELSE s[i]]

Slice(s, n) == IF Len(s) <= n THEN s ELSE SubSeq(s, 1, n)

(***************************************************************************)
(* The document root: a directory with files at top level and in one       *)
(* subdirectory.  FileUniverse lists every file the root can hold, in the  *)
(* order os.walk reports them (top directory first, then subdirectories).  *)
(***************************************************************************)
DocsPath == <<".", "/", "d">>

ExtMd == <<".", "m", "d">>

ExtTxt == <<".", "t", "x", "t">>

ExtHtml == <<".", "h", "t", "m", "l">>

FileUniverse ==
    << [dir |-> <<>>, name |-> <<"a", "_", "b">> \o ExtMd],
       [dir |-> <<>>, name |-> <<"c">> \o ExtTxt],
       [dir |-> <<>>, name |-> <<"d", ".", "p", "y">>],
       [dir |-> <<"a">>, name |-> <<"b">> \o ExtMd] >>

NFiles == Len(FileUniverse)

Join(a, b) == a \o <<"/">> \o b

WalkRoot(f) == IF f.dir = <<>> THEN DocsPath ELSE Join(DocsPath, f.dir)

FilePath(f) == Join(WalkRoot(f), f.name)

\* os.path.relpath(path, start) for a path below start
RelPath(path, start) == SubSeq(path, Len(start) + 2, Len(path))

Eligible(name) ==
    EndsWith(name, ExtMd) \/ EndsWith(name, ExtTxt) \/ EndsWith(name, ExtHtml)

(***************************************************************************)
(* File states: absent, text (utf-8 decodable), binary (undecodable) or     *)
(* locked (no permission to open).                                         *)
(***************************************************************************)
Absent == [kind |-> "absent", data |-> <<>>, mtime |-> 0]

Locked == [kind |-> "locked", data |-> <<>>, mtime |-> 1]

Directory == [kind |-> "directory", data |-> <<>>, mtime |-> 1]

Binary == [kind |-> "binary", data |-> <<>>, mtime |-> 1]

Text(d, m) == [kind |-> "text", data |-> d, mtime |-> m]

DocShort == <<"A", "b", " ", "a">>

DocTitled ==
    <<"#", " ", "\"", "T", "\n", "a", "b", "a", "b", " ",
      "a", "b", "a", "b", " ", "b", "a", "b", "a">>

\* One character longer than a preview: "BA......b"
DocLong ==
    [i \in 1..(PreviewLen + 1) |->
        IF i = 1 THEN "B" ELSE IF i = 2 THEN "A"
        ELSE IF i = PreviewLen + 1 THEN "b" ELSE "."]

\* The states file i of FileUniverse starts in: every file may be absent or hold
\* the short text, the .md files may hold the titled text, and the .txt file may
\* hold the titled or the long text, be undecodable or be locked
FileStates(i) ==
    LET name == FileUniverse[i].name
    IN  {Absent, Text(DocShort, 1)}
          \cup (IF EndsWith(name, ExtMd) THEN {Text(DocTitled, 2)} ELSE {})
          \cup (IF EndsWith(name, ExtTxt)
                THEN {Text(DocTitled, 2), Text(DocLong, 1), Binary, Locked}
                ELSE {})

\* os.walk(docs_path): the paths of the files present, in walk order; a missing
\* root yields nothing.
Walk(exists, files) ==
    IF exists
    THEN SelectSeq([i \in 1..NFiles |-> i], LAMBDA i : files[i].kind # "absent")
    ELSE <<>>

(***************************************************************************)
(* DocumentationProcessor._process_file                                    *)
(***************************************************************************)
\* The last position of the line that holds position i
LineEnd(s, i) == Min({j \in i..(Len(s) + 1) : j > Len(s) \/ s[j] = "\n"}) - 1

\* The length of the run of whitespace that starts at position i
SpaceRun(s, i) == Min({j \in i..(Len(s) + 1) : j > Len(s) \/ ~IsSpace(s[j])}) - i

\* The starts k of group 1 for a match of ^#\s+(.+)$ with the '#' at position i.
TitleStarts(s, i) ==
    IF ~(s[i] = "#" /\ (i = 1 \/ s[i - 1] = "\n")) THEN {}
    ELSE {k \in (i + 2)..(i + 1 + SpaceRun(s, i + 1)) : k <= Len(s) /\ s[k] # "\n"}

\* os.path.basename
Basename(path) ==
    LET seps == {i \in 1..Len(path) : path[i] = "/"}
    IN  IF seps = {} THEN path ELSE SubSeq(path, Max(seps) + 1, Len(path))

\* The title: the basename, or for a .md file group 1 of
\* re.search(r'^#\s+(.+)$', content, re.MULTILINE) (leftmost '#', greedy \s+).
ExtractTitle(path, content) ==
    LET hits == {i \in 1..Len(content) : TitleStarts(content, i) # {}}
    IN  IF EndsWith(path, ExtMd) /\ hits # {}
        THEN LET k == Max(TitleStarts(content, Min(hits)))
             IN  SubSeq(content, k, LineEnd(content, k))
        ELSE Basename(path)

FileId(path) == Replace(Replace(RelPath(path, DocsPath), "/", "_"), "\\", "_")

\* re.findall(r'\b\w+\b', text): the maximal runs of word characters
FindWords(s) == Runs(s, WordChars, TRUE)

Range(s) == {s[i] : i \in 1..Len(s)}

\* sorted(seq, key=..., reverse=True): descending by key, equal keys keep their
\* original relative order (Python's sort is stable, also with reverse=True).
\* keys[i] is the key of s[i].
SortedDesc(s, keys) ==
    LET rank(i) == 1 + Cardinality({j \in 1..Len(s) :
                        \/ keys[j] > keys[i]
                        \/ (keys[j] = keys[i] /\ j < i)})
    IN  [p \in 1..Len(s) |-> s[CHOOSE i \in 1..Len(s) : rank(i) = p]]

RECURSIVE FreqFrom(_, _, _)
FreqFrom(words, i, acc) ==
    IF i > Len(words) THEN acc
    ELSE LET w == words[i]
             at == {k \in 1..Len(acc) : acc[k].word = w}
         IN  IF Len(w) <= MinWordLen THEN FreqFrom(words, i + 1, acc)
             ELSE IF at = {}
                  THEN FreqFrom(words, i + 1, Append(acc, [word |-> w, n |-> 1]))
                  ELSE FreqFrom(words, i + 1,
                         [acc EXCEPT ![Min(at)].n = acc[Min(at)].n + 1])

\* word_freq: an insertion-ordered dict, words of more than three characters
WordFreq(words) == FreqFrom(words, 1, <<>>)

\* The keywords of the first 20 words met, ranked afterwards
ExtractKeywordsTruncateFirst(content) ==
    LET freq == Slice(WordFreq(FindWords(Lower(content))), TopKeywords)
        ranked == SortedDesc(freq, [k \in 1..Len(freq) |-> freq[k].n])
    IN  [k \in 1..Len(ranked) |-> ranked[k].word]

\* Get top keywords: the words of word_freq sorted by frequency, the first 20
ExtractKeywords(content) ==
    LET freq == WordFreq(FindWords(Lower(content)))
        ranked == SortedDesc(freq, [k \in 1..Len(freq) |-> freq[k].n])
        top == Slice(ranked, TopKeywords)
    IN  [k \in 1..Len(top) |-> top[k].word]

\* _process_file that never raises: an unreadable file reads as empty text
ProcessFileUnchecked(f, st) ==
    [ok |-> TRUE,
     info |-> [id |-> FileId(FilePath(f)),
               path |-> FilePath(f),
               title |-> ExtractTitle(FilePath(f), st.data),
               size |-> Len(st.data),
               modified |-> st.mtime],
     keywords |-> ExtractKeywords(st.data)]

\* _process_file: raises unless the file can be opened and decoded
ProcessFile(f, st) ==
    IF st.kind # "text" THEN [ok |-> FALSE]
    ELSE [ok |-> TRUE,
          info |-> [id |-> FileId(FilePath(f)),
                    path |-> FilePath(f),
                    title |-> ExtractTitle(FilePath(f), st.data),
                    size |-> Len(st.data),
                    modified |-> st.mtime],
          keywords |-> ExtractKeywords(st.data)]

(***************************************************************************)
(* The index: the Python dict self.index.  built = FALSE is the empty dict *)
(* {} of __init__; keywords is the insertion-ordered dict keyword -> ids;  *)
(* lacks holds the keys "files" and "keywords" that the dict does not have *)
(* (a dict read from a file need not have them).                           *)
(***************************************************************************)
NoIndex == [built |-> FALSE, files |-> <<>>, keywords |-> <<>>,
            lacks |-> {<<"f", "i", "l", "e", "s">>,
                       <<"k", "e", "y", "w", "o", "r", "d", "s">>}]

EmptyIndex == [built |-> TRUE, files |-> <<>>, keywords |-> <<>>, lacks |-> {}]

RECURSIVE AddKeywords(_, _, _, _)
AddKeywords(kws, words, i, id) ==
    IF i > Len(words) THEN kws
    ELSE LET at == {k \in 1..Len(kws) : kws[k].key = words[i]}
             kws1 == IF at = {} THEN Append(kws, [key |-> words[i], ids |-> <<>>])
                     ELSE kws
             pos == Min({k \in 1..Len(kws1) : kws1[k].key = words[i]})
         IN  AddKeywords([kws1 EXCEPT ![pos].ids = Append(kws1[pos].ids, id)],
                         words, i + 1, id)

RECURSIVE IndexFrom(_, _, _, _)
IndexFrom(walk, files, i, idx) ==
    IF i > Len(walk) THEN idx
    ELSE LET f == FileUniverse[walk[i]]
             r == ProcessFile(f, files[walk[i]])
         IN  IF ~Eligible(f.name) \/ ~r.ok THEN IndexFrom(walk, files, i + 1, idx)
             ELSE IndexFrom(walk, files, i + 1,
                    [idx EXCEPT !.files = Append(idx.files, r.info),
                                !.keywords = AddKeywords(idx.keywords, r.keywords,
                                                         1, r.info.id)])

\* index_documentation without the reset of self.index: the pass adds to the
\* documents and postings the index already has
BuildIndexAccumulating(files) ==
    IndexFrom(Walk(TRUE, files), files, 1,
              [index EXCEPT !.built = TRUE, !.lacks = {}])

\* index_documentation: the index it assigns to self.index and returns (the
\* root exists when the walk starts: a missing root has been created empty)
BuildIndex(files) == IndexFrom(Walk(TRUE, files), files, 1, EmptyIndex)

(***************************************************************************)
(* json.dump / json.load of the index.  The file is a sequence of JSON     *)
(* tokens; a string token holds the escaped characters written between     *)
(* the quotes.                                                             *)
(***************************************************************************)
Punct(c) == [t |-> "p", v |-> <<c>>, n |-> 0]

Num(k) == [t |-> "n", v |-> <<>>, n |-> k]

RECURSIVE Escape(_)
Escape(s) ==
    IF s = <<>> THEN <<>>
    ELSE LET c == Head(s)
         IN  (IF c = "\"" THEN <<"\\", "\"">>
              ELSE IF c = "\\" THEN <<"\\", "\\">>
              ELSE IF c = "\n" THEN <<"\\", "n">>
              ELSE <<c>>) \o Escape(Tail(s))

\* No escape sequence is decoded
UnescapeNone(v) == v

RECURSIVE Unescape(_)
Unescape(v) ==
    IF v = <<>> THEN <<>>
    ELSE IF Head(v) = "\\" /\ Len(v) >= 2
         THEN <<(IF v[2] = "n" THEN "\n" ELSE v[2])>> \o Unescape(Tail(Tail(v)))
         ELSE <<Head(v)>> \o Unescape(Tail(v))

Str(s) == [t |-> "s", v |-> Escape(s), n |-> 0]

KFiles == <<"f", "i", "l", "e", "s">>

KKeywords == <<"k", "e", "y", "w", "o", "r", "d", "s">>

KId == <<"i", "d">>

KPath == <<"p", "a", "t", "h">>

KTitle == <<"t", "i", "t", "l", "e">>

KSize == <<"s", "i", "z", "e">>

KModified == <<"m", "o", "d", "i", "f", "i", "e", "d">>

RECURSIVE JoinTokens(_, _)
JoinTokens(parts, sep) ==
    IF parts = <<>> THEN <<>>
    ELSE IF Len(parts) = 1 THEN parts[1]
    ELSE parts[1] \o <<sep>> \o JoinTokens(Tail(parts), sep)

DumpDoc(d) ==
    <<Punct("{"), Str(KId), Punct(":"), Str(d.id), Punct(","),
      Str(KPath), Punct(":"), Str(d.path), Punct(","),
      Str(KTitle), Punct(":"), Str(d.title), Punct(","),
      Str(KSize), Punct(":"), Num(d.size), Punct(","),
      Str(KModified), Punct(":"), Num(d.modified), Punct("}")>>

DumpPosting(e) ==
    <<Str(e.key), Punct(":"), Punct("[")>>
      \o JoinTokens([k \in 1..Len(e.ids) |-> <<Str(e.ids[k])>>], Punct(","))
      \o <<Punct("]")>>

DumpFiles(idx) ==
    <<Str(KFiles), Punct(":"), Punct("[")>>
      \o JoinTokens([k \in 1..Len(idx.files) |-> DumpDoc(idx.files[k])], Punct(","))
      \o <<Punct("]")>>

DumpKeywords(idx) ==
    <<Str(KKeywords), Punct(":"), Punct("{")>>
      \o JoinTokens([k \in 1..Len(idx.keywords) |-> DumpPosting(idx.keywords[k])],
                    Punct(","))
      \o <<Punct("}")>>

\* json.dump(self.index, f): the members the dict has, in insertion order
Dump(idx) ==
    <<Punct("{")>>
      \o JoinTokens((IF KFiles \in idx.lacks THEN <<>> ELSE <<DumpFiles(idx)>>)
                      \o (IF KKeywords \in idx.lacks THEN <<>>
                          ELSE <<DumpKeywords(idx)>>),
                    Punct(","))
      \o <<Punct("}")>>

Fail == [ok |-> FALSE, val |-> <<>>, pos |-> 0]

IsP(toks, i, c) == i <= Len(toks) /\ toks[i].t = "p" /\ toks[i].v = <<c>>

IsT(toks, i, type) == i <= Len(toks) /\ toks[i].t = type

\* The members "key": scalar, ... } of an object, from position i
RECURSIVE ParseMembers(_, _, _)
ParseMembers(toks, i, acc) ==
    IF ~(IsT(toks, i, "s") /\ IsP(toks, i + 1, ":")
           /\ (IsT(toks, i + 2, "s") \/ IsT(toks, i + 2, "n"))) THEN Fail
    ELSE IF IsP(toks, i + 3, "}")
         THEN [ok |-> TRUE, pos |-> i + 4,
               val |-> Append(acc, [key |-> Unescape(toks[i].v), tok |-> toks[i + 2]])]
    ELSE IF IsP(toks, i + 3, ",")
         THEN ParseMembers(toks, i + 4,
                Append(acc, [key |-> Unescape(toks[i].v), tok |-> toks[i + 2]]))
    ELSE Fail

Member(ms, key) ==
    LET at == {k \in 1..Len(ms) : ms[k].key = key}
    IN  ms[Max(at)].tok

HasMember(ms, key, type) ==
    \E k \in 1..Len(ms) : ms[k].key = key /\ Member(ms, key).t = type

\* The document record of the members r of an object
DocOf(r) ==
    IF ~r.ok THEN Fail
    ELSE IF ~(/\ HasMember(r.val, KId, "s") /\ HasMember(r.val, KPath, "s")
              /\ HasMember(r.val, KTitle, "s") /\ HasMember(r.val, KSize, "n")
              /\ HasMember(r.val, KModified, "n")) THEN Fail
    ELSE [ok |-> TRUE, pos |-> r.pos,
          val |-> [id |-> Unescape(Member(r.val, KId).v),
                   path |-> Unescape(Member(r.val, KPath).v),
                   title |-> Unescape(Member(r.val, KTitle).v),
                   size |-> Member(r.val, KSize).n,
                   modified |-> Member(r.val, KModified).n]]

\* One document record { "id": ..., "path": ..., ... }
ParseDoc(toks, i) ==
    IF ~IsP(toks, i, "{") THEN Fail ELSE DocOf(ParseMembers(toks, i + 1, <<>>))

RECURSIVE ParseDocs(_, _, _)
RECURSIVE DocsAfter(_, _, _)
\* After the document r: the end of the array, or a comma and the next document
DocsAfter(toks, acc, r) ==
    IF ~r.ok THEN Fail
    ELSE IF IsP(toks, r.pos, "]")
         THEN [ok |-> TRUE, val |-> Append(acc, r.val), pos |-> r.pos + 1]
    ELSE IF IsP(toks, r.pos, ",") THEN ParseDocs(toks, r.pos + 1, Append(acc, r.val))
    ELSE Fail

ParseDocs(toks, i, acc) == DocsAfter(toks, acc, ParseDoc(toks, i))

RECURSIVE ParseStrings(_, _, _)
ParseStrings(toks, i, acc) ==
    IF ~IsT(toks, i, "s") THEN Fail
    ELSE IF IsP(toks, i + 1, "]")
         THEN [ok |-> TRUE, val |-> Append(acc, Unescape(toks[i].v)), pos |-> i + 2]
    ELSE IF IsP(toks, i + 1, ",")
         THEN ParseStrings(toks, i + 2, Append(acc, Unescape(toks[i].v)))
    ELSE Fail

\* An array [ ... ] of document records (ofDocs) or of strings; [] is empty
ParseArray(toks, i, ofDocs) ==
    IF ~IsP(toks, i, "[") THEN Fail
    ELSE IF IsP(toks, i + 1, "]") THEN [ok |-> TRUE, val |-> <<>>, pos |-> i + 2]
    ELSE IF ofDocs THEN ParseDocs(toks, i + 1, <<>>)
    ELSE ParseStrings(toks, i + 1, <<>>)

\* A later duplicate of a key replaces the value and keeps the key's place
PutPosting(acc, key, ids) ==
    LET at == {k \in 1..Len(acc) : acc[k].key = key}
    IN  IF at = {} THEN Append(acc, [key |-> key, ids |-> ids])
        ELSE [acc EXCEPT ![Min(at)].ids = ids]

RECURSIVE ParsePostings(_, _, _)
RECURSIVE PostingsAfter(_, _, _, _)
\* After the id array r of a key: the end of the object, or a comma and the next
PostingsAfter(toks, acc, key, r) ==
    IF ~r.ok THEN Fail
    ELSE IF IsP(toks, r.pos, "}")
         THEN [ok |-> TRUE, val |-> PutPosting(acc, key, r.val), pos |-> r.pos + 1]
    ELSE IF IsP(toks, r.pos, ",")
         THEN ParsePostings(toks, r.pos + 1, PutPosting(acc, key, r.val))
    ELSE Fail

ParsePostings(toks, i, acc) ==
    IF ~(IsT(toks, i, "s") /\ IsP(toks, i + 1, ":")) THEN Fail
    ELSE PostingsAfter(toks, acc, Unescape(toks[i].v), ParseArray(toks, i + 2, FALSE))

ParseKeywords(toks, i) ==
    IF ~IsP(toks, i, "{") THEN Fail
    ELSE IF IsP(toks, i + 1, "}") THEN [ok |-> TRUE, val |-> <<>>, pos |-> i + 2]
    ELSE ParsePostings(toks, i + 1, <<>>)

\* The index of the parsed documents fr and the parsed keywords kr
IndexOf(toks, fr, kr) ==
    IF ~kr.ok THEN Fail
    ELSE IF ~(IsP(toks, kr.pos, "}") /\ kr.pos = Len(toks)) THEN Fail
    ELSE [ok |-> TRUE, pos |-> kr.pos + 1,
          val |-> [built |-> TRUE, files |-> fr.val, keywords |-> kr.val,
                   lacks |-> {}]]

\* A dict of the parsed keywords kr alone: it has no "files"
KeywordsOnly(toks, kr) ==
    IF ~kr.ok THEN Fail
    ELSE IF ~(IsP(toks, kr.pos, "}") /\ kr.pos = Len(toks)) THEN Fail
    ELSE [ok |-> TRUE, pos |-> kr.pos + 1,
          val |-> [built |-> TRUE, files |-> <<>>, keywords |-> kr.val,
                   lacks |-> {KFiles}]]

\* After the array fr of "files": } (a dict without "keywords"), or
\* , "keywords": { ... } }
KeywordsAfter(toks, fr) ==
    IF ~fr.ok THEN Fail
    ELSE IF IsP(toks, fr.pos, "}") /\ fr.pos = Len(toks)
         THEN [ok |-> TRUE, pos |-> fr.pos + 1,
               val |-> [built |-> TRUE, files |-> fr.val, keywords |-> <<>>,
                        lacks |-> {KKeywords}]]
    ELSE IF ~(/\ IsP(toks, fr.pos, ",") /\ IsT(toks, fr.pos + 1, "s")
              /\ Unescape(toks[fr.pos + 1].v) = KKeywords
              /\ IsP(toks, fr.pos + 2, ":")) THEN Fail
    ELSE IndexOf(toks, fr, ParseKeywords(toks, fr.pos + 3))

\* json.load of an index file: it accepts every JSON object of the shapes { },
\* { "keywords": {...} }, { "files": [...] } and
\* { "files": [...], "keywords": {...} }, and raises on text that is not JSON
Parse(toks) ==
    IF toks = <<Punct("{"), Punct("}")>> THEN [ok |-> TRUE, val |-> NoIndex, pos |-> 3]
    ELSE IF ~(IsP(toks, 1, "{") /\ IsT(toks, 2, "s") /\ IsP(toks, 3, ":")) THEN Fail
    ELSE IF Unescape(toks[2].v) = KKeywords
         THEN KeywordsOnly(toks, ParseKeywords(toks, 4))
    ELSE IF Unescape(toks[2].v) = KFiles
         THEN KeywordsAfter(toks, ParseArray(toks, 4, TRUE))
    ELSE Fail

(***************************************************************************)
(* Searching.                                                              *)
(***************************************************************************)
\* open(path).read(): the state of the file at that path
FileAt(path, exists, files) ==
    LET at == {i \in 1..NFiles : FilePath(FileUniverse[i]) = path}
    IN  IF exists /\ at # {} THEN files[Min(at)] ELSE Absent

\* A repeated term counted once
RECURSIVE TermScoreDedup(_, _, _)
TermScoreDedup(content, terms, i) ==
    IF i > Len(terms) THEN 0
    ELSE (IF \E j \in 1..(i - 1) : terms[j] = terms[i] THEN 0
          ELSE Count(content, terms[i])) + TermScoreDedup(content, terms, i + 1)

\* for term in query_terms: score += content.count(term)
RECURSIVE TermScore(_, _, _)
TermScore(content, terms, i) ==
    IF i > Len(terms) THEN 0
    ELSE Count(content, terms[i]) + TermScore(content, terms, i + 1)

\* content[:200] + "..." if len(content) > 200 else content
Preview(content) ==
    IF Len(content) > PreviewLen
    THEN SubSeq(content, 1, PreviewLen) \o <<".", ".", ".">>
    ELSE content

Scores(results) == [k \in 1..Len(results) |-> results[k].score]

\* Ties in reverse: an ascending sort read backwards
RankedTiesReversed(results, limit) ==
    LET n == Len(results)
        back == [k \in 1..n |-> results[n + 1 - k]]
    IN  Slice(SortedDesc(back, Scores(back)), limit)

\* The limit applied before the sort
RankedTruncateFirst(results, limit) ==
    SortedDesc(Slice(results, limit), Scores(Slice(results, limit)))

\* sorted(results, key=score, reverse=True)[:max_results]
Ranked(results, limit) == Slice(SortedDesc(results, Scores(results)), limit)

\* DocumentationProcessor.search, the loop over self.index["files"]
RECURSIVE ScanIndex(_, _, _, _, _, _)
ScanIndex(docs, exists, files, terms, i, acc) ==
    IF i > Len(docs) THEN acc
    ELSE LET st == FileAt(docs[i].path, exists, files)
             content == Lower(st.data)
             score == TermScore(content, terms, 1)
         IN  IF st.kind # "text" \/ score <= 0
             THEN ScanIndex(docs, exists, files, terms, i + 1, acc)
             ELSE ScanIndex(docs, exists, files, terms, i + 1,
                    Append(acc, [file |-> docs[i].path,
                                 title |-> docs[i].title,
                                 score |-> score,
                                 preview |-> Preview(content)]))

\* A search that looks the terms up in the keyword postings and scores only the
\* documents posted under a term of the query
ProcessorSearchPosted(idx, exists, files, query, limit) ==
    LET terms == Split(Lower(query))
        posted == UNION {Range(idx.keywords[k].ids) :
                           k \in {n \in 1..Len(idx.keywords) :
                                    \E t \in 1..Len(terms) :
                                       idx.keywords[n].key = terms[t]}}
        docs == SelectSeq(idx.files, LAMBDA d : d.id \in posted)
    IN  Ranked(ScanIndex(docs, exists, files, terms, 1, <<>>), limit)

ProcessorSearch(idx, exists, files, query, limit) ==
    Ranked(ScanIndex(idx.files, exists, files, Split(Lower(query)), 1, <<>>), limit)

\* The walk of DocumentSearchTool._execute and DocumentationAssistant.search_docs
RECURSIVE ScanFiles(_, _, _, _, _)
ScanFiles(walk, files, query, i, acc) ==
    IF i > Len(walk) THEN acc
    ELSE LET f == FileUniverse[walk[i]]
             st == files[walk[i]]
             content == st.data
         IN  IF \/ ~Eligible(f.name)
                \/ st.kind # "text"
                \/ ~Contains(Lower(content), Lower(query))
             THEN ScanFiles(walk, files, query, i + 1, acc)
             ELSE ScanFiles(walk, files, query, i + 1,
                    Append(acc, [file |-> FilePath(f),
                                 score |-> Count(Lower(content), Lower(query)),
                                 preview |-> Preview(content)]))

DirectScan(exists, files, query, limit) ==
    Ranked(ScanFiles(Walk(exists, files), files, query, 1, <<>>), limit)

(***************************************************************************)
(* State and actions.                                                      *)
(***************************************************************************)
QueryAlphabet == {"A", " "}

Queries == UNION {[1..n -> QueryAlphabet] : n \in 0..MaxQueryLen}

Limits == 1..MaxLimit

NoFile == [exists |-> FALSE, toks |-> <<>>]

Result(op, status, query, limit, results) ==
    [op |-> op, status |-> status, query |-> query, limit |-> limit,
     results |-> results]

Idle == Result("idle", "ok", <<>>, 0, <<>>)

\* No indexing pass is being followed step by step
NoPass == [active |-> FALSE, walk |-> <<>>, id |-> <<>>, todo |-> <<>>]

\* No interactive session is running
NoSession == [app |-> "none", at |-> "off", input |-> <<>>]

\* The document root is missing, a directory, or a regular file (which holds no
\* files, and which os.walk lists as nothing)
Init ==
    /\ rootExists \in BOOLEAN
    /\ rootIsFile \in BOOLEAN
    /\ rootIsFile => rootExists
    /\ fs \in [1..NFiles -> UNION {FileStates(i) : i \in 1..NFiles}]
    /\ \A i \in 1..NFiles :
         fs[i] \in (IF rootExists /\ ~rootIsFile THEN FileStates(i) ELSE {Absent})
    /\ pass = NoPass
    /\ session = NoSession
    /\ other = Idle
    /\ index = NoIndex
    /\ indexFile = NoFile
    /\ out = Idle

\* index_documentation() without the os.makedirs of a missing root
IndexWithoutMakedirs ==
    /\ out = Idle
    /\ index' = BuildIndex(fs)
    /\ out' = Result("index", IF rootExists THEN "ok" ELSE "created", <<>>, 0, <<>>)
    /\ UNCHANGED <<rootExists, fs, indexFile, rootIsFile, pass, session, other>>

\* index_documentation(): it returns self.index normally in every case; a root
\* that is a regular file passes os.path.exists and os.walk lists nothing of it
IndexDocumentation ==
    /\ out = Idle
    /\ rootExists' = TRUE
    /\ index' = BuildIndex(fs)
    /\ out' = Result("index", IF rootExists THEN "ok" ELSE "created", <<>>, 0, <<>>)
    /\ UNCHANGED <<fs, indexFile, rootIsFile, pass, session, other>>

\* search without the try/except around the open of each document: the first
\* indexed file that cannot be read ends the call with its exception
SearchUnguarded(query, limit) ==
    LET idx == IF ~index.built THEN BuildIndex(fs) ELSE index
        exists == rootExists \/ ~index.built
    IN  /\ out = Idle
        /\ index' = idx
        /\ rootExists' = exists
        /\ out' = IF \/ KFiles \in idx.lacks
                     \/ \E d \in Range(idx.files) :
                           FileAt(d.path, exists, fs).kind # "text"
                  THEN Result("search", "raise", query, limit, <<>>)
                  ELSE Result("search", "ok", query, limit,
                              ProcessorSearch(idx, exists, fs, query, limit))
        /\ UNCHANGED <<fs, indexFile, rootIsFile, pass, session, other>>

\* search(query, max_results): an empty dict is rebuilt first; a dict without
\* "files" raises KeyError at self.index["files"]
Search(query, limit) ==
    LET idx == IF ~index.built THEN BuildIndex(fs) ELSE index
        exists == rootExists \/ ~index.built
    IN  /\ out = Idle
        /\ index' = idx
        /\ rootExists' = exists
        /\ out' = IF KFiles \in idx.lacks
                  THEN Result("search", "raise", query, limit, <<>>)
                  ELSE Result("search", "ok", query, limit,
                              ProcessorSearch(idx, exists, fs, query, limit))
        /\ UNCHANGED <<fs, indexFile, rootIsFile, pass, session, other>>

\* save_index(index_path)
SaveIndex ==
    LET idx == IF ~index.built THEN BuildIndex(fs) ELSE index
    IN  /\ out = Idle
        /\ index' = idx
        /\ rootExists' = (rootExists \/ ~index.built)
        /\ indexFile' = [exists |-> TRUE, toks |-> Dump(idx)]
        /\ out' = Result("save", "ok", <<>>, 0, <<>>)
        /\ UNCHANGED <<fs, rootIsFile, pass, session, other>>

\* load_index that leaves self.index alone when there is no file
LoadResultNoRebuild(file, idx, files) ==
    IF file.exists
    THEN LET r == Parse(file.toks) IN IF r.ok THEN r.val ELSE idx
    ELSE idx

\* The value load_index leaves in self.index: the parsed file, the index as it
\* was when json.load raises, or a fresh index when there is no file
LoadResult(file, idx, files) ==
    IF file.exists
    THEN LET r == Parse(file.toks) IN IF r.ok THEN r.val ELSE idx
    ELSE BuildIndex(files)

LoadStatus(file) ==
    IF ~file.exists THEN "rebuilt" ELSE IF Parse(file.toks).ok THEN "ok" ELSE "raise"

\* load_index(index_path)
LoadIndex ==
    /\ out = Idle
    /\ index' = LoadResult(indexFile, index, fs)
    /\ rootExists' = (rootExists \/ ~indexFile.exists)
    /\ out' = Result("load", LoadStatus(indexFile), <<>>, 0, <<>>)
    /\ UNCHANGED <<fs, indexFile, rootIsFile, pass, session, other>>

\* DocumentSearchTool._execute(tool_use, max_results); a tool_use without a
\* query reads as the empty query
ToolExecute(query, limit) ==
    LET results == DirectScan(rootExists, fs, query, limit)
    IN  /\ out = Idle
        /\ out' = IF query = <<>>
                  THEN Result("tool", "error", query, limit, <<>>)
                  ELSE Result("tool", "success", query, limit, results)
        /\ UNCHANGED <<rootExists, fs, index, indexFile, rootIsFile, pass, session, other>>

\* DocumentationAssistant.__init__ creates a missing document root
AssistantInit ==
    /\ out = Idle
    /\ ~rootExists
    /\ rootExists' = TRUE
    /\ out' = Result("assistant", "created", <<>>, 0, <<>>)
    /\ UNCHANGED <<fs, index, indexFile, rootIsFile, pass, session, other>>

\* DocumentationAssistant.search_docs(query, max_results)
SearchDocs(query, limit) ==
    /\ out = Idle
    /\ rootExists
    /\ out' = Result("search_docs", "ok", query, limit,
                     DirectScan(rootExists, fs, query, limit))
    /\ UNCHANGED <<rootExists, fs, index, indexFile, rootIsFile, pass, session, other>>

\* The paths handed to the read operations: every file of the root, the empty
\* path, the root itself and a path that names nothing
ReadPaths ==
    {FilePath(FileUniverse[i]) : i \in 1..NFiles}
      \cup {<<>>, DocsPath, Join(DocsPath, <<"x">>)}

\* What open(path) finds; a regular file in place of the root holds the short
\* text
OpenPath(path) ==
    IF path = DocsPath
    THEN (IF ~rootExists THEN Absent
          ELSE IF rootIsFile THEN Text(DocShort, 1) ELSE Directory)
    ELSE FileAt(path, rootExists, fs)

\* str(e) of the exception that open or read raises
Cause(st) ==
    CASE st.kind = "absent" -> "No such file or directory"
      [] st.kind = "binary" -> "codec can't decode byte"
      [] st.kind = "locked" -> "Permission denied"
      [] st.kind = "directory" -> "Is a directory"

ReadFailure(path, st) ==
    [reason |-> "Failed to read file", file |-> path, cause |-> Cause(st)]

\* DocumentReaderTool._execute(tool_use); a tool_use without a file_path reads
\* as the empty path
ReadTool(path) ==
    LET st == OpenPath(path)
    IN  /\ out = Idle
        /\ out' = IF path = <<>>
                  THEN Result("read_tool", "error", path, 0,
                              <<[reason |-> "No file path provided"]>>)
                  ELSE IF st.kind = "text"
                  THEN Result("read_tool", "success", path, 0,
                              <<[file |-> path, content |-> st.data]>>)
                  ELSE Result("read_tool", "error", path, 0,
                              <<ReadFailure(path, st)>>)
        /\ UNCHANGED <<rootExists, rootIsFile, fs, index, indexFile, pass, session, other>>

\* read_doc without its try/except: the exception of open reaches the caller
ReadDocUnguarded(path) ==
    LET st == OpenPath(path)
    IN  /\ out = Idle
        /\ out' = IF st.kind = "text"
                  THEN Result("read_doc", "ok", path, 0,
                              <<[file |-> path, content |-> st.data]>>)
                  ELSE Result("read_doc", "raise", path, 0, <<>>)
        /\ UNCHANGED <<rootExists, rootIsFile, fs, index, indexFile, pass, session, other>>

\* DocumentationAssistant.read_doc(file_path): {"file", "content"}, or
\* {"error": ...} (status error)
ReadDoc(path) ==
    LET st == OpenPath(path)
    IN  /\ out = Idle
        /\ out' = IF st.kind = "text"
                  THEN Result("read_doc", "ok", path, 0,
                              <<[file |-> path, content |-> st.data]>>)
                  ELSE Result("read_doc", "error", path, 0,
                              <<ReadFailure(path, st)>>)
        /\ UNCHANGED <<rootExists, rootIsFile, fs, index, indexFile, pass, session, other>>

\* The caller takes the result of the call it made and is free to call again
Return ==
    /\ out # Idle
    /\ ~pass.active
    /\ out' = Idle
    /\ UNCHANGED <<rootExists, fs, index, indexFile, rootIsFile, pass, session, other>>

Next ==
    \/ IndexDocumentation
    \/ \E q \in Queries, n \in Limits : Search(q, n)
    \/ SaveIndex
    \/ LoadIndex
    \/ \E q \in Queries, n \in Limits : ToolExecute(q, n)
    \/ AssistantInit
    \/ \E q \in Queries, n \in Limits : SearchDocs(q, n)
    \/ \E path \in ReadPaths : ReadTool(path)
    \/ \E path \in ReadPaths : ReadDoc(path)
    \/ Return

Spec == Init /\ [][Next]_vars

(***************************************************************************)
(* The same processor over a document root whose files change between      *)
(* calls.                                                                  *)
(***************************************************************************)
ChangingStates(i) ==
    {Absent, Text(DocShort, 1)}
      \cup (IF EndsWith(FileUniverse[i].name, ExtTxt) THEN {Binary} ELSE {})

InitFs ==
    /\ rootExists \in BOOLEAN
    /\ fs \in [1..NFiles -> UNION {ChangingStates(i) : i \in 1..NFiles}]
    /\ \A i \in 1..NFiles : fs[i] \in (IF rootExists THEN ChangingStates(i) ELSE {Absent})
    /\ rootIsFile = FALSE
    /\ pass = NoPass
    /\ session = NoSession
    /\ other = Idle
    /\ index = NoIndex
    /\ indexFile = NoFile
    /\ out = Idle

\* A file of the existing root is created or rewritten between two calls
WriteFile(i, st) ==
    /\ out = Idle
    /\ rootExists /\ ~rootIsFile
    /\ st # Absent
    /\ fs[i] # st
    /\ fs' = [fs EXCEPT ![i] = st]
    /\ UNCHANGED <<rootExists, index, indexFile, out, rootIsFile, pass, session, other>>

\* A file is deleted between two calls
RemoveFile(i) ==
    /\ out = Idle
    /\ fs[i] # Absent
    /\ fs' = [fs EXCEPT ![i] = Absent]
    /\ UNCHANGED <<rootExists, index, indexFile, out, rootIsFile, pass, session, other>>

\* The index files that did not come from save_index: text that is not JSON, and
\* JSON objects without "files" or without "keywords"
DamagedFiles ==
    { <<Punct("{")>>,
      <<Punct("{"), Punct("}")>>,
      <<Punct("{"), Str(KKeywords), Punct(":"), Punct("{"), Punct("}"), Punct("}")>>,
      <<Punct("{"), Str(KFiles), Punct(":"), Punct("["), Punct("]"), Punct("}")>> }

\* The index file is overwritten with damaged content between two calls
DamageIndexFile(toks) ==
    /\ out = Idle
    /\ indexFile # [exists |-> TRUE, toks |-> toks]
    /\ indexFile' = [exists |-> TRUE, toks |-> toks]
    /\ UNCHANGED <<rootExists, rootIsFile, fs, index, out, pass, session, other>>

NextFs ==
    \/ IndexDocumentation
    \/ \E q \in Queries, n \in Limits : Search(q, n)
    \/ \E i \in 1..NFiles : \E st \in ChangingStates(i) : WriteFile(i, st)
    \/ \E i \in 1..NFiles : RemoveFile(i)
    \/ Return

SpecFs == InitFs /\ [][NextFs]_vars

(***************************************************************************)
(* The processor with an index file that can be damaged between calls.     *)
(***************************************************************************)
NextDamaged ==
    \/ IndexDocumentation
    \/ \E q \in Queries, n \in Limits : Search(q, n)
    \/ SaveIndex
    \/ LoadIndex
    \/ \E toks \in DamagedFiles : DamageIndexFile(toks)
    \/ Return

SpecDamaged == InitFs /\ [][NextDamaged]_vars

(***************************************************************************)
(* The three searches over a root whose files are deleted, rewritten,      *)
(* made undecodable or made unreadable between indexing and the query.     *)
(***************************************************************************)
QueryTimeStates(i) ==
    ChangingStates(i)
      \cup (IF EndsWith(FileUniverse[i].name, ExtTxt)
            THEN {Text(DocTitled, 2), Locked}
            ELSE {})

NextQueryTime ==
    \/ IndexDocumentation
    \/ \E q \in Queries, n \in Limits : Search(q, n)
    \/ \E q \in Queries, n \in Limits : ToolExecute(q, n)
    \/ AssistantInit
    \/ \E q \in Queries, n \in Limits : SearchDocs(q, n)
    \/ \E i \in 1..NFiles : \E st \in QueryTimeStates(i) : WriteFile(i, st)
    \/ \E i \in 1..NFiles : RemoveFile(i)
    \/ Return

SpecQueryTime == InitFs /\ [][NextQueryTime]_vars

(***************************************************************************)
(* index_documentation followed statement by statement: pass.walk holds    *)
(* the files the walk has still to visit, pass.todo the keywords of the    *)
(* current file that are still to be posted under the id pass.id.  The     *)
(* processor is single-threaded: no other call runs during a pass.         *)
(***************************************************************************)
\* self.index = {"files": [], "keywords": {}}; makedirs; the walk starts
BeginIndexing ==
    /\ out = Idle
    /\ ~pass.active
    /\ index' = EmptyIndex
    /\ rootExists' = TRUE
    /\ pass' = [active |-> TRUE, walk |-> Walk(TRUE, fs), id |-> <<>>, todo |-> <<>>]
    /\ out' = Result("indexing", IF rootExists THEN "ok" ELSE "created", <<>>, 0, <<>>)
    /\ UNCHANGED <<rootIsFile, fs, indexFile, session, other>>

\* The next file of the walk, with its postings left out of order: the
\* document is not appended before its keywords are posted
IndexNextFileUnlisted ==
    /\ pass.active
    /\ pass.todo = <<>>
    /\ pass.walk # <<>>
    /\ LET f == FileUniverse[Head(pass.walk)]
           r == ProcessFile(f, fs[Head(pass.walk)])
       IN  IF ~Eligible(f.name) \/ ~r.ok
           THEN /\ pass' = [pass EXCEPT !.walk = Tail(pass.walk)]
                /\ index' = index
           ELSE /\ pass' = [pass EXCEPT !.walk = Tail(pass.walk),
                                        !.id = r.info.id, !.todo = r.keywords]
                /\ index' = index
    /\ UNCHANGED <<rootExists, rootIsFile, fs, indexFile, out, session, other>>

\* The next file of the walk: skipped when it is not eligible or _process_file
\* raises, else self.index["files"].append(file_info)
IndexNextFile ==
    /\ pass.active
    /\ pass.todo = <<>>
    /\ pass.walk # <<>>
    /\ LET f == FileUniverse[Head(pass.walk)]
           r == ProcessFile(f, fs[Head(pass.walk)])
       IN  IF ~Eligible(f.name) \/ ~r.ok
           THEN /\ pass' = [pass EXCEPT !.walk = Tail(pass.walk)]
                /\ index' = index
           ELSE /\ pass' = [pass EXCEPT !.walk = Tail(pass.walk),
                                        !.id = r.info.id, !.todo = r.keywords]
                /\ index' = [index EXCEPT !.files = Append(index.files, r.info)]
    /\ UNCHANGED <<rootExists, rootIsFile, fs, indexFile, out, session, other>>

\* One turn of for keyword in keywords: the id is appended to the posting list
\* of the keyword, created empty when the keyword is new
PostKeyword ==
    /\ pass.active
    /\ pass.todo # <<>>
    /\ index' = [index EXCEPT
                    !.keywords = AddKeywords(index.keywords, <<Head(pass.todo)>>,
                                             1, pass.id)]
    /\ pass' = [pass EXCEPT !.todo = Tail(pass.todo)]
    /\ UNCHANGED <<rootExists, rootIsFile, fs, indexFile, out, session, other>>

\* return self.index
EndIndexing ==
    /\ pass.active
    /\ pass.todo = <<>>
    /\ pass.walk = <<>>
    /\ pass' = NoPass
    /\ out' = [out EXCEPT !.op = "index"]
    /\ UNCHANGED <<rootExists, rootIsFile, fs, index, indexFile, session, other>>

NextPass ==
    \/ BeginIndexing
    \/ IndexNextFile
    \/ PostKeyword
    \/ EndIndexing
    \/ \E q \in Queries, n \in Limits : Search(q, n)
    \/ SaveIndex
    \/ LoadIndex
    \/ Return

SpecPass == Init /\ [][NextPass]_vars

(***************************************************************************)
(* Two callers on one processor.  While the pass of the first caller is    *)
(* followed statement by statement, a second thread calls search or        *)
(* index_documentation on the same object, and its call runs in whole      *)
(* between two statements of the pass; other holds what the second call    *)
(* returned.  The class has no lock and makes no copy: both calls read and *)
(* write the one dict self.index.                                          *)
(***************************************************************************)
\* search by the second caller: self.index is non-empty during a pass, so it is
\* not rebuilt, and the loop runs over the documents appended so far
OtherSearch(query, limit) ==
    /\ pass.active
    /\ other = Idle
    /\ other' = Result("search", "ok", query, limit,
                       ProcessorSearch(index, rootExists, fs, query, limit))
    /\ UNCHANGED <<rootExists, rootIsFile, fs, index, indexFile, out, pass, session>>

\* index_documentation by the second caller: it assigns a new dict to
\* self.index, fills it and returns it; the first pass goes on with its own
\* walk and appends to whatever self.index is by then
OtherIndex ==
    /\ pass.active
    /\ other = Idle
    /\ index' = BuildIndex(fs)
    /\ other' = Result("index", "ok", <<>>, 0, <<>>)
    /\ UNCHANGED <<rootExists, rootIsFile, fs, indexFile, out, pass, session>>

\* The second caller has its result and may call again
OtherReturn ==
    /\ other # Idle
    /\ other' = Idle
    /\ UNCHANGED <<rootExists, rootIsFile, fs, index, indexFile, out, pass, session>>

NextConcurrent ==
    \/ BeginIndexing
    \/ IndexNextFile
    \/ PostKeyword
    \/ EndIndexing
    \/ \E q \in Queries, n \in Limits : OtherSearch(q, n)
    \/ OtherIndex
    \/ OtherReturn
    \/ Return

SpecConcurrent == Init /\ [][NextConcurrent]_vars

(***************************************************************************)
(* _process_file called on generated texts: up to MaxTextWords distinct    *)
(* four-letter words, in three arrangements.                               *)
(***************************************************************************)
TextLetters == <<"a", "b", "t">>

\* The k-th four-letter word over TextLetters
TextWord(k) ==
    <<TextLetters[((k \div 27) % 3) + 1], TextLetters[((k \div 9) % 3) + 1],
      TextLetters[((k \div 3) % 3) + 1], TextLetters[(k % 3) + 1]>>

UpperChar(c) == IF c = "a" THEN "A" ELSE IF c = "b" THEN "B" ELSE IF c = "t" THEN "T" ELSE c

Upper(s) == [i \in 1..Len(s) |-> UpperChar(s[i])]

\* The words of arrangement p with n distinct long words:
\*  1: every word once;
\*  2: every word once, then every second word once more;
\*  3: every word once in upper case, each followed by the short word "ab",
\*     then the last word twice more in lower case.
TextWords(n, p) ==
    LET once == [k \in 1..n |-> TextWord(k)]
        evens == SelectSeq(once, LAMBDA w : \E k \in 1..n : k % 2 = 0 /\ w = TextWord(k))
    IN  IF p = 1 THEN once
        ELSE IF p = 2 THEN once \o evens
        ELSE [k \in 1..(2 * n) |-> IF k % 2 = 1 THEN Upper(TextWord((k + 1) \div 2))
                                   ELSE <<"a", "b">>]
               \o (IF n = 0 THEN <<>> ELSE <<TextWord(n), TextWord(n)>>)

GeneratedText(n, p) == JoinTokens(TextWords(n, p), " ")

Arrangements == 1..3

\* c.txt holds a generated text, the other files are absent
InitTexts ==
    /\ rootExists = TRUE
    /\ rootIsFile = FALSE
    /\ \E n \in 0..MaxTextWords, p \in Arrangements :
         fs = [i \in 1..NFiles |->
                 IF Eligible(FileUniverse[i].name) /\ FileUniverse[i].dir = <<>>
                    /\ ~EndsWith(FileUniverse[i].name, ExtMd)
                 THEN Text(GeneratedText(n, p), 1) ELSE Absent]
    /\ index = NoIndex
    /\ indexFile = NoFile
    /\ out = Idle
    /\ pass = NoPass
    /\ session = NoSession
    /\ other = Idle

\* _process_file(file_path) called on file i: (file_info, keywords), or the
\* exception of open
ProcessFileCall(i) ==
    LET r == ProcessFile(FileUniverse[i], fs[i])
    IN  /\ out = Idle
        /\ out' = IF r.ok
                  THEN Result("process_file", "ok", fs[i].data, 0,
                              <<[info |-> r.info, keywords |-> r.keywords]>>)
                  ELSE Result("process_file", "raise", <<>>, 0, <<>>)
        /\ UNCHANGED <<rootExists, rootIsFile, fs, index, indexFile, pass, session, other>>

NextTexts ==
    \/ \E i \in 1..NFiles : ProcessFileCall(i)
    \/ Return

SpecTexts == InitTexts /\ [][NextTexts]_vars

(***************************************************************************)
(* The interactive sessions: the while True loops of main.py, app.py and   *)
(* simplified_app.py.  session.at is the position of the loop: at the      *)
(* prompt, ended by the user, or crashed (an exception left main).  The    *)
(* agent and the Bedrock client are outside the repository: a call to them *)
(* returns or raises.                                                      *)
(***************************************************************************)
Apps == {"main", "app", "simplified"}

ExitWords == {<<"e", "x", "i", "t">>, <<"q", "u", "i", "t">>}

SessionInputs == ExitWords \cup {<<"e", "x", "i", "T">>} \cup Queries

DefaultMaxResults == 5

TopResultsRead == 3

\* main(): main.py and DocumentationAssistant.__init__ create a missing root,
\* app.py does not
StartSession(app) ==
    /\ session = NoSession
    /\ out = Idle
    /\ session' = [app |-> app, at |-> "prompt", input |-> <<>>]
    /\ rootExists' = (rootExists \/ app \in {"main", "simplified"})
    /\ UNCHANGED <<rootIsFile, fs, index, indexFile, out, pass, other>>

\* if user_input.lower() in ["exit", "quit"]: break
Quit(line) ==
    /\ session.at = "prompt"
    /\ Lower(line) \in ExitWords
    /\ session' = [session EXCEPT !.at = "ended", !.input = line]
    /\ out' = Result("session", "goodbye", line, 0, <<>>)
    /\ UNCHANGED <<rootExists, rootIsFile, fs, index, indexFile, pass, other>>

\* app.py: response = agent.process_message(user_input), outside any try
AppTurn(line, raises) ==
    /\ session.at = "prompt"
    /\ session.app = "app"
    /\ Lower(line) \notin ExitWords
    /\ session' = [session EXCEPT !.at = IF raises THEN "crashed" ELSE "prompt",
                                  !.input = line]
    /\ out' = Result("session", IF raises THEN "raise" ELSE "reply", line, 0, <<>>)
    /\ UNCHANGED <<rootExists, rootIsFile, fs, index, indexFile, pass, other>>

\* main.py: agent(user_input) inside try; the except clause reports the error
\* and calls create_agent again, outside any try
MainTurn(line, raises, recreateRaises) ==
    /\ session.at = "prompt"
    /\ session.app = "main"
    /\ Lower(line) \notin ExitWords
    /\ session' = [session EXCEPT !.at = IF raises /\ recreateRaises THEN "crashed"
                                        ELSE "prompt",
                                  !.input = line]
    /\ out' = Result("session",
                     IF ~raises THEN "reply"
                     ELSE IF recreateRaises THEN "raise" ELSE "error_reported",
                     line, 0, <<>>)
    /\ UNCHANGED <<rootExists, rootIsFile, fs, index, indexFile, pass, other>>

\* DocumentationAssistant.process_query(query): search_docs, read_doc of the top
\* results, invoke_bedrock inside try
ProcessQuery(query, raises) ==
    LET found == DirectScan(rootExists, fs, query, DefaultMaxResults)
        top == Slice(found, TopResultsRead)
        read == SelectSeq(top, LAMBDA r : OpenPath(r.file).kind = "text")
    IN  Result("session",
               IF found = <<>> THEN "nothing_found"
               ELSE IF read = <<>> THEN "nothing_read"
               ELSE IF raises THEN "error_reported" ELSE "reply",
               query, 0, read)

\* simplified_app.py: response = assistant.process_query(user_input)
SimplifiedTurn(line, raises) ==
    /\ session.at = "prompt"
    /\ session.app = "simplified"
    /\ Lower(line) \notin ExitWords
    /\ session' = [session EXCEPT !.input = line]
    /\ out' = ProcessQuery(line, raises)
    /\ UNCHANGED <<rootExists, rootIsFile, fs, index, indexFile, pass, other>>

NextSession ==
    \/ \E app \in Apps : StartSession(app)
    \/ \E line \in SessionInputs : Quit(line)
    \/ \E line \in SessionInputs, raises \in BOOLEAN : AppTurn(line, raises)
    \/ \E line \in SessionInputs, raises, recreateRaises \in BOOLEAN :
           MainTurn(line, raises, recreateRaises)
    \/ \E line \in SessionInputs, raises \in BOOLEAN : SimplifiedTurn(line, raises)

SpecSession == InitFs /\ [][NextSession]_vars

(***************************************************************************)
(* main() of main.py followed statement by statement.  session.args holds  *)
(* the flags --index, --dry-run and --mcp-server, session.at the position  *)
(* of main, and session.done what main has done so far: "makedirs",        *)
(* "index", "dry_run_report", "create_agent", "register_mcp_tools".        *)
(***************************************************************************)
\* args = parse_args()
MainParseArgs(indexFlag, dryRun, mcp) ==
    /\ session = NoSession
    /\ out = Idle
    /\ session' = [app |-> "main", at |-> "parsed", input |-> <<>>,
                   args |-> [index |-> indexFlag, dryRun |-> dryRun, mcp |-> mcp],
                   done |-> <<>>]
    /\ UNCHANGED <<rootExists, rootIsFile, fs, index, indexFile, out, pass, other>>

\* if not os.path.exists(args.docs_path): os.makedirs(args.docs_path)
MainMakeDirs ==
    /\ session.at = "parsed"
    /\ rootExists' = TRUE
    /\ session' = [session EXCEPT
                      !.at = "rooted",
                      !.done = IF rootExists THEN @ ELSE Append(@, "makedirs")]
    /\ UNCHANGED <<rootIsFile, fs, index, indexFile, out, pass, other>>

\* if args.index: a new processor indexes the root and saves the index
MainIndex ==
    /\ session.at = "rooted"
    /\ IF session.args.index
       THEN /\ index' = BuildIndex(fs)
            /\ indexFile' = [exists |-> TRUE, toks |-> Dump(BuildIndex(fs))]
            /\ session' = [session EXCEPT !.at = "indexed",
                                          !.done = Append(@, "index")]
       ELSE /\ session' = [session EXCEPT !.at = "indexed"]
            /\ UNCHANGED <<index, indexFile>>
    /\ UNCHANGED <<rootExists, rootIsFile, fs, out, pass, other>>

\* The files the dry run lists: the walk of the root, filtered by extension
DryRunFiles ==
    LET walk == SelectSeq(Walk(rootExists, fs),
                          LAMBDA i : Eligible(FileUniverse[i].name))
    IN  [k \in 1..Len(walk) |-> FilePath(FileUniverse[walk[k]])]

\* main without the return that ends the dry run: after the report it goes on
\* to create the agent
MainDryRunNoReturn ==
    /\ session.at = "indexed"
    /\ session.args.dryRun
    /\ session' = [session EXCEPT
                      !.at = "agent",
                      !.done = @ \o <<"dry_run_report", "create_agent">>]
    /\ out' = Result("dry_run", "ok", <<>>, 0, DryRunFiles)
    /\ UNCHANGED <<rootExists, rootIsFile, fs, index, indexFile, pass, other>>

\* if args.dry_run: the report (tool creation, the documentation files found)
\* and return
MainDryRun ==
    /\ session.at = "indexed"
    /\ session.args.dryRun
    /\ session' = [session EXCEPT !.at = "returned",
                                  !.done = Append(@, "dry_run_report")]
    /\ out' = Result("dry_run", "ok", <<>>, 0, DryRunFiles)
    /\ UNCHANGED <<rootExists, rootIsFile, fs, index, indexFile, pass, other>>

\* agent = create_agent(...), outside any try
MainCreateAgent(raises) ==
    /\ session.at = "indexed"
    /\ ~session.args.dryRun
    /\ session' = [session EXCEPT !.at = IF raises THEN "crashed" ELSE "agent",
                                  !.done = Append(@, "create_agent")]
    /\ UNCHANGED <<rootExists, rootIsFile, fs, index, indexFile, out, pass, other>>

\* if args.mcp_server: register_mcp_tools(...); then the loop prompts
MainRegisterMcp ==
    /\ session.at = "agent"
    /\ session' = [session EXCEPT
                      !.at = "prompt",
                      !.done = IF session.args.mcp
                               THEN Append(@, "register_mcp_tools") ELSE @]
    /\ UNCHANGED <<rootExists, rootIsFile, fs, index, indexFile, out, pass, other>>

NextMain ==
    \/ \E indexFlag, dryRun, mcp \in BOOLEAN : MainParseArgs(indexFlag, dryRun, mcp)
    \/ MainMakeDirs
    \/ MainIndex
    \/ MainDryRun
    \/ \E raises \in BOOLEAN : MainCreateAgent(raises)
    \/ MainRegisterMcp
    \/ \E line \in SessionInputs : Quit(line)
    \/ \E line \in SessionInputs, raises, recreateRaises \in BOOLEAN :
           MainTurn(line, raises, recreateRaises)

SpecMain == Init /\ [][NextMain]_vars

(***************************************************************************)
(* Properties.                                                             *)
(***************************************************************************)
SearchOps == {"search", "tool", "search_docs"}

ScanOps == {"tool", "search_docs"}

\* The terms of the query of the call whose result out holds
QueryTerms == Split(Lower(out.query))

\* The raw content of the file a result names
RawContent(r) == FileAt(r.file, rootExists, fs).data

\* The position at which the file of result r was discovered: its place in the
\* documents of the index, or in the walk of the root
Discovery(r) ==
    IF out.op = "search"
    THEN Min({k \in 1..Len(index.files) : index.files[k].path = r.file})
    ELSE LET walk == Walk(rootExists, fs)
         IN  Min({k \in 1..Len(walk) : FilePath(FileUniverse[walk[k]]) = r.file})

\* Every match of the call, before ranking and truncation
Matches ==
    IF out.op = "search"
    THEN ScanIndex(index.files, rootExists, fs, QueryTerms, 1, <<>>)
    ELSE ScanFiles(Walk(rootExists, fs), fs, out.query, 1, <<>>)

RanksBefore(r, m) ==
    r.score > m.score \/ (r.score = m.score /\ Discovery(r) < Discovery(m))

RECURSIVE SumOver(_, _, _)
SumOver(S, content, terms) ==
    IF S = {} THEN 0
    ELSE LET t == CHOOSE x \in S : TRUE
         IN  Cardinality({k \in 1..Len(terms) : terms[k] = t}) * Count(content, t)
               + SumOver(S \ {t}, content, terms)

\* The sum over the distinct terms of (times the term is in the query) times
\* (occurrences of the term in the content)
WeightedTermSum(content, terms) == SumOver(Range(terms), content, terms)

\* C1: the ids of the documents of an index are collision-free: two documents
\* have the same id exactly when they have the same path.
C1_IdsCollisionFree ==
    \A i, j \in 1..Len(index.files) :
        (index.files[i].id = index.files[j].id)
            <=> (index.files[i].path = index.files[j].path)

\* C2: right after save_index, load_index of the file written yields an index
\* with the same documents (fields and order) and the same keyword postings
\* (same keys, same set of ids per key).
C2_SaveLoadRoundTrip ==
    out.op = "save" =>
        LET loaded == LoadResult(indexFile, NoIndex, fs)
            Postings(idx) == {<<idx.keywords[k].key, Range(idx.keywords[k].ids)>> :
                                k \in 1..Len(idx.keywords)}
        IN  /\ LoadStatus(indexFile) = "ok"
            /\ loaded.built
            /\ loaded.files = index.files
            /\ Postings(loaded) = Postings(index)
            /\ Len(loaded.keywords) = Cardinality(Postings(index))

C2_Witness ==
    /\ out.op = "save"
    /\ Len(index.files) >= 2
    /\ Len(index.keywords) >= 2
    /\ \E k \in 1..Len(index.files) : "\"" \in Range(index.files[k].title)

\* C3: the results of every search are ordered by score descending, and results
\* of equal score are in the order in which their documents were discovered.
C3_RankedStable ==
    out.op \in SearchOps =>
        \A i, j \in 1..Len(out.results) :
            i < j => RanksBefore(out.results[i], out.results[j])

C3_Witness ==
    /\ out.op \in SearchOps
    /\ Len(out.results) >= 2
    /\ out.results[1].score = out.results[2].score
    /\ Len(Matches) > 2

C5_NonMatchExcluded ==
    out.op \in SearchOps =>
        \A k \in 1..Len(out.results) :
            /\ out.results[k].score >= 1
            /\ \E t \in Range(QueryTerms) :
                   Count(Lower(RawContent(out.results[k])), t) > 0

\* C6: in direct-scan mode the score of a file is the sum over the whitespace-split
\* lower-cased query terms of the occurrences of the term in the lower-cased
\* content, and every eligible file with a positive sum is a match.
C6_DirectScanTermSum ==
    (out.op \in ScanOps /\ out.status # "error") =>
        /\ \A k \in 1..Len(out.results) :
               out.results[k].score =
                   WeightedTermSum(Lower(RawContent(out.results[k])), QueryTerms)
        /\ \A i \in 1..NFiles :
               (/\ rootExists
                /\ Eligible(FileUniverse[i].name)
                /\ fs[i].kind = "text"
                /\ WeightedTermSum(Lower(fs[i].data), QueryTerms) > 0
                /\ Len(out.results) < out.limit)
               => \E k \in 1..Len(out.results) :
                      out.results[k].file = FilePath(FileUniverse[i])

\* C7: in index-assisted mode the score of a document is the sum over the query's
\* terms, a term repeated k times counting k times, of the occurrences of the
\* term in the lower-cased content; every readable indexed document with a
\* positive sum is a match.
C7_IndexTermSum ==
    out.op = "search" =>
        /\ \A k \in 1..Len(out.results) :
               out.results[k].score =
                   WeightedTermSum(Lower(RawContent(out.results[k])), QueryTerms)
        /\ \A d \in Range(index.files) :
               LET st == FileAt(d.path, rootExists, fs)
               IN  (/\ st.kind = "text"
                    /\ WeightedTermSum(Lower(st.data), QueryTerms) > 0
                    /\ Len(out.results) < out.limit)
                   => \E k \in 1..Len(out.results) : out.results[k].file = d.path

C7_Witness ==
    /\ out.op = "search"
    /\ Len(QueryTerms) = 2
    /\ QueryTerms[1] = QueryTerms[2]
    /\ Len(out.results) >= 1
    /\ out.results[1].score = 2 * Count(Lower(RawContent(out.results[1])), QueryTerms[1])

\* C8: a search whose query has no terms returns an empty result list as a
\* normal, successful outcome, in every search implementation.
C8_EmptyQueryEmptyList ==
    (out.op \in SearchOps /\ QueryTerms = <<>>) =>
        (out.status \in {"ok", "success"} /\ out.results = <<>>)

\* C9: the preview of every search result is the raw content when it has at most
\* 200 characters, and else its first 200 characters followed by "...".
C9_PreviewOfRawContent ==
    out.op \in SearchOps =>
        \A k \in 1..Len(out.results) :
            LET raw == RawContent(out.results[k])
            IN  out.results[k].preview =
                    IF Len(raw) <= PreviewLen THEN raw
                    ELSE [i \in 1..(PreviewLen + 3) |->
                            IF i <= PreviewLen THEN raw[i] ELSE "."]

\* C10: index_documentation on a missing root creates the root and returns the
\* empty index, and a search on that empty index returns the empty list,
\* whatever the query and whatever the root holds by then.
C10_MissingRootEmptyIndex ==
    [][/\ (~rootExists /\ out'.op = "index") =>
             (rootExists' /\ index' = EmptyIndex /\ fs' = fs)
       /\ (index = EmptyIndex /\ out'.op = "search") =>
             (out'.results = <<>> /\ out'.status = "ok" /\ index' = EmptyIndex)]_vars

C10_Witness ==
    /\ out.op = "index"
    /\ out.status = "created"
    /\ rootExists
    /\ index = EmptyIndex

C10_SearchWitness ==
    /\ out.op = "search"
    /\ index = EmptyIndex
    /\ out.results = <<>>
    /\ \E i \in 1..NFiles :
         /\ Eligible(FileUniverse[i].name)
         /\ fs[i].kind = "text"
         /\ WeightedTermSum(Lower(fs[i].data), QueryTerms) > 0

\* The eligible files of the root that open and decode, as paths in walk order
ReadablePaths ==
    LET walk == SelectSeq(Walk(rootExists, fs),
                          LAMBDA i : Eligible(FileUniverse[i].name)
                                       /\ fs[i].kind = "text")
    IN  [k \in 1..Len(walk) |-> FilePath(FileUniverse[walk[k]])]

\* C11: index_documentation returns normally whatever files cannot be read, and
\* the index it leaves has exactly one document per readable eligible file, in
\* walk order, and every id of every posting list is the id of a readable file
\* whose text has that keyword.
C11_UnreadableFilesSkipped ==
    out.op = "index" =>
        /\ out.status \in {"ok", "created"}
        /\ [k \in 1..Len(index.files) |-> index.files[k].path] = ReadablePaths
        /\ \A e \in Range(index.keywords) : \A id \in Range(e.ids) :
               \E d \in Range(index.files) :
                   /\ d.id = id
                   /\ FileAt(d.path, rootExists, fs).kind = "text"
                   /\ e.key \in Range(ExtractKeywords(FileAt(d.path, rootExists, fs).data))

\* An undecodable file between two readable files, both of them indexed
C11_Witness ==
    /\ out.op = "index"
    /\ \E i \in 1..NFiles : Eligible(FileUniverse[i].name) /\ fs[i].kind = "binary"
                                /\ (\E j \in 1..(i - 1) : fs[j].kind = "text")
                                /\ (\E j \in (i + 1)..NFiles : fs[j].kind = "text")
    /\ Len(index.files) = 2
    /\ Len(index.keywords) >= 1

\* C12: index_documentation on a root that exists but cannot be enumerated (a
\* regular file in place of the directory) reports a failure: it does not
\* return normally with the empty index of a root without documents.
C12_UnwalkableRootReported ==
    (out.op = "index" /\ rootIsFile) => ~(out.status = "ok" /\ index = EmptyIndex)

\* C13: load_index of a path without a file returns normally with a freshly
\* built index: the index index_documentation builds for the same root, one
\* document per readable eligible file.
C13_LoadWithoutFileRebuilds ==
    (out.op = "load" /\ ~indexFile.exists) =>
        /\ out.status = "rebuilt"
        /\ rootExists
        /\ index = BuildIndex(fs)
        /\ [k \in 1..Len(index.files) |-> index.files[k].path] = ReadablePaths

C13_Witness ==
    /\ out.op = "load"
    /\ ~indexFile.exists
    /\ Len(index.files) = 1
    /\ Len(index.keywords) >= 1

\* The index file holds no dict with both the documents and the keyword mapping
Damaged(file) ==
    file.exists /\ (~Parse(file.toks).ok \/ Parse(file.toks).val.lacks # {})

\* C14: load_index of an index file that does not parse, or that parses to a
\* dict without the documents list or without the keyword mapping, raises; a
\* later search never fails on an index that load_index accepted.
C14_DamagedFileRejected ==
    /\ (out.op = "load" /\ Damaged(indexFile)) => out.status = "raise"
    /\ out.op = "search" => out.status # "raise"

\* The keys of the keyword postings of an index
PostingKeys(idx) == {idx.keywords[k].key : k \in 1..Len(idx.keywords)}

\* C15: index_documentation on a processor that already holds the index of the
\* unchanged root leaves the same documents (order and fields) and the same
\* posting keys, with every posting list as long as before: the pass replaces
\* the index and adds nothing to it.
C15_ReindexIdempotent ==
    [][(out'.op = "index" /\ index.built) =>
          /\ index'.files = index.files
          /\ PostingKeys(index') = PostingKeys(index)
          /\ Len(index'.keywords) = Len(index.keywords)
          /\ \A k \in 1..Len(index.keywords) :
                 Len(index'.keywords[k].ids) = Len(index.keywords[k].ids)]_vars

\* An index_documentation after a save_index, which left the index built
C15_Witness ==
    /\ out.op = "index"
    /\ indexFile.exists
    /\ Len(index.files) >= 2
    /\ Len(index.keywords) >= 1

ReadOps == {"read_tool", "read_doc"}

\* C16: a read returns, for every path: for a file that opens and decodes, the
\* path and the full content; for any other path (no file, undecodable, locked,
\* a directory, the empty path) a failure value with a reason.  The exception
\* never reaches the caller.
C16_ReadReturnsValue ==
    out.op \in ReadOps =>
        /\ out.status # "raise"
        /\ Len(out.results) = 1
        /\ IF OpenPath(out.query).kind = "text" /\ out.query # <<>>
           THEN /\ out.status \in {"ok", "success"}
                /\ out.results[1] = [file |-> out.query,
                                      content |-> OpenPath(out.query).data]
           ELSE /\ out.status = "error"
                /\ out.results[1].reason # ""

\* Reads of a long file in full, and failed reads for each cause
C16_Witness ==
    /\ out.op = "read_doc"
    /\ out.status = "error"
    /\ out.results[1].cause = "Permission denied"
    /\ fs[1].kind = "text"

C16_FullContentWitness ==
    /\ out.op \in ReadOps
    /\ out.status \in {"ok", "success"}
    /\ Len(out.results[1].content) > PreviewLen

\* C17: a failure while processing an input never ends a session: the loop is
\* at the prompt again after every input that is not exit or quit, and a
\* session that is over was ended by the user entering exit or quit.
C17_SessionSurvivesFailures ==
    /\ session.at \in {"off", "prompt", "ended"}
    /\ session.at = "ended" => Lower(session.input) \in ExitWords

\* C18: on an index built from the unchanged root, the index-assisted search
\* returns the files the direct scan returns for the same query and limit, in
\* the same order and with the same scores.
C18_ModesEquivalent ==
    (out.op = "search" /\ index = BuildIndex(fs)) =>
        LET direct == DirectScan(rootExists, fs, out.query, out.limit)
        IN  [k \in 1..Len(out.results) |->
                <<out.results[k].file, out.results[k].score>>]
              = [k \in 1..Len(direct) |-> <<direct[k].file, direct[k].score>>]

\* The pass that ended left the index that index_documentation builds at once
PassBuildsIndex ==
    (out.op = "index" /\ ~pass.active) => index = BuildIndex(fs)

\* C19: in every state, also between two statements of an indexing pass, every
\* id of every posting list is the id of a document of the documents list.
C19_PostingIdsListed ==
    \A k \in 1..Len(index.keywords) :
        \A j \in 1..Len(index.keywords[k].ids) :
            \E d \in 1..Len(index.files) :
                index.files[d].id = index.keywords[k].ids[j]

\* In the middle of a pass, between two keywords of the second document
C19_Witness ==
    /\ pass.active
    /\ pass.todo # <<>>
    /\ Len(index.files) = 2
    /\ Len(index.keywords) >= 1
    /\ pass.id = index.files[2].id
    /\ \E k \in 1..Len(index.keywords) : pass.id \in Range(index.keywords[k].ids)

\* The lower-cased word tokens of a text
TokensOf(text) == LET ws == FindWords(text) IN [k \in 1..Len(ws) |-> Lower(ws[k])]

\* The tokens of more than three characters
LongTokens(toks) == {w \in Range(toks) : Len(w) > 3}

Occurrences(toks, w) == Cardinality({i \in 1..Len(toks) : toks[i] = w})

FirstOccurrence(toks, w) == Min({i \in 1..Len(toks) : toks[i] = w})

\* More frequent, or as frequent and met earlier in the text
KeywordBefore(toks, v, w) ==
    \/ Occurrences(toks, v) > Occurrences(toks, w)
    \/ /\ Occurrences(toks, v) = Occurrences(toks, w)
       /\ FirstOccurrence(toks, v) < FirstOccurrence(toks, w)

\* C20: the keywords _process_file returns are lower-cased word tokens of the
\* text of more than three characters, at most 20 and without duplicates, in
\* order of frequency descending and, at equal frequency, of first occurrence;
\* they are exactly the first 20 of all long tokens in that order.
C20_KeywordsTopTwenty ==
    (out.op = "process_file" /\ out.status = "ok") =>
        LET kws == out.results[1].keywords
            toks == TokensOf(out.query)
            long == LongTokens(toks)
        IN  /\ Range(kws) \subseteq long
            /\ Len(kws) = IF Cardinality(long) < 20 THEN Cardinality(long) ELSE 20
            /\ Cardinality(Range(kws)) = Len(kws)
            /\ \A i, j \in 1..Len(kws) :
                   i < j => KeywordBefore(toks, kws[i], kws[j])
            /\ \A w \in long \ Range(kws) :
                   \A i \in 1..Len(kws) : KeywordBefore(toks, kws[i], w)

\* More than 20 long words, a keyword met after the 20th distinct word, ties
\* among the keywords, and a word left out
C20_Witness ==
    /\ out.op = "process_file"
    /\ out.status = "ok"
    /\ LET kws == out.results[1].keywords
           toks == TokensOf(out.query)
           long == LongTokens(toks)
       IN  /\ Cardinality(long) > 20
           /\ Len(kws) = 20
           /\ Occurrences(toks, kws[19]) = Occurrences(toks, kws[20])
           /\ \E k \in 1..20 :
                Cardinality({w \in long : FirstOccurrence(toks, w)
                                             < FirstOccurrence(toks, kws[k])}) >= 20

\* Upper-case words and short words in the text
C20_CaseWitness ==
    /\ out.op = "process_file"
    /\ out.status = "ok"
    /\ LET kws == out.results[1].keywords
           toks == TokensOf(out.query)
       IN  /\ Len(kws) >= 2
           /\ \E c \in Range(out.query) : c # LowerChar(c)
           /\ Range(toks) # LongTokens(toks)
           /\ Occurrences(toks, kws[1]) = 3

\* C21: a search that starts with no index, or with an index of zero
\* documents, rebuilds the index from the root before it scores: it leaves the
\* index of the files of the root and returns the results over that index.
C21_EmptyIndexRebuilt ==
    [][(out'.op = "search" /\ Len(index.files) = 0 /\ rootExists) =>
          /\ index' = BuildIndex(fs)
          /\ out'.results
               = ProcessorSearch(BuildIndex(fs), TRUE, fs, out'.query, out'.limit)]_vars

\* C22: the results of a search do not depend on the keyword postings: they are
\* the results over the same documents with no postings at all, and every
\* readable indexed document whose lower-cased content contains a term of the
\* query is among them unless the limit cut the list, whether or not the term
\* is a key of the postings.
C22_ExhaustiveRescoring ==
    (out.op = "search" /\ out.status = "ok") =>
        /\ out.results = ProcessorSearch([index EXCEPT !.keywords = <<>>],
                                         rootExists, fs, out.query, out.limit)
        /\ \A d \in Range(index.files) :
               LET st == FileAt(d.path, rootExists, fs)
               IN  (/\ st.kind = "text"
                    /\ \E t \in 1..Len(QueryTerms) :
                          Contains(Lower(st.data), QueryTerms[t])
                    /\ Len(out.results) < out.limit)
                   => \E k \in 1..Len(out.results) : out.results[k].file = d.path

\* A result found through a term of at most three characters that is no key of
\* the postings and is inside a longer word that is a key
C22_Witness ==
    /\ out.op = "search"
    /\ out.status = "ok"
    /\ Len(out.results) >= 1
    /\ \E t \in 1..Len(QueryTerms) :
         /\ Len(QueryTerms[t]) <= MinWordLen
         /\ QueryTerms[t] \notin PostingKeys(index)
         /\ \E k \in 1..Len(index.keywords) :
              /\ Contains(index.keywords[k].key, QueryTerms[t])
              /\ \E d \in Range(index.files) :
                   /\ d.id \in Range(index.keywords[k].ids)
                   /\ d.path = out.results[1].file

\* C23: calls interleaved on one processor each work on their own data: a
\* search that runs during an indexing pass returns the results over the
\* complete index of the root, and the index a pass returns is the index of
\* the root, with nothing added by another pass.
C23_CallsIsolated ==
    /\ other.op = "search" =>
          other.results
            = ProcessorSearch(BuildIndex(fs), TRUE, fs, other.query, other.limit)
    /\ out.op = "index" => index = BuildIndex(fs)

\* The paths the call looked at, in the order it met them: the documents of the
\* index, or the eligible files of the walk
Candidates ==
    IF out.op = "search"
    THEN [k \in 1..Len(index.files) |-> index.files[k].path]
    ELSE LET walk == SelectSeq(Walk(rootExists, fs),
                               LAMBDA i : Eligible(FileUniverse[i].name))
         IN  [k \in 1..Len(walk) |-> FilePath(FileUniverse[walk[k]])]

\* The file at the path opens and decodes at the time of the query
Readable(path) == FileAt(path, rootExists, fs).kind = "text"

\* The score the searching implementation gives the content at the path
ScoreOf(path) ==
    LET content == Lower(FileAt(path, rootExists, fs).data)
    IN  IF out.op = "search" THEN WeightedTermSum(content, QueryTerms)
        ELSE IF Contains(content, Lower(out.query))
             THEN Count(content, Lower(out.query))
             ELSE 0

\* C24: no search raises because a file cannot be read at the time of the query,
\* no result names such a file, and the results are the readable candidates
\* with a positive score, every one with its score, ranked by score descending
\* and by order of discovery at equal score, cut to the limit.
C24_UnreadableFilesSkipped ==
    out.op \in SearchOps =>
        /\ out.status # "raise"
        /\ out.status \in {"ok", "success"} =>
             LET res == out.results
                 rest == SelectSeq(Candidates,
                                   LAMBDA p : Readable(p) /\ ScoreOf(p) > 0)
                 Before(k, p) ==
                     \/ res[k].score > ScoreOf(p)
                     \/ /\ res[k].score = ScoreOf(p)
                        /\ Discovery(res[k]) < Discovery([file |-> p])
             IN  /\ \A k \in 1..Len(res) :
                        /\ \E n \in 1..Len(rest) : rest[n] = res[k].file
                        /\ res[k].score = ScoreOf(res[k].file)
                 /\ \A i, j \in 1..Len(res) : i < j => RanksBefore(res[i], res[j])
                 /\ Len(res) = Min({out.limit, Len(rest)})
                 /\ \A n \in 1..Len(rest) :
                        \/ \E k \in 1..Len(res) : res[k].file = rest[n]
                        \/ \A k \in 1..Len(res) : Before(k, rest[n])

\* A search of the index after an indexed file was deleted or made unreadable:
\* the file is left out and a document indexed after it is returned
C24_Witness ==
    /\ out.op = "search"
    /\ out.status = "ok"
    /\ \E i, j \in 1..Len(index.files) :
         /\ i < j
         /\ ~Readable(index.files[i].path)
         /\ \E k \in 1..Len(out.results) : out.results[k].file = index.files[j].path

\* A direct scan that meets an undecodable or unreadable eligible file and still
\* returns a file
C24_ScanWitness ==
    /\ out.op \in ScanOps
    /\ out.status \in {"ok", "success"}
    /\ Len(out.results) >= 1
    /\ \E i \in 1..NFiles :
         /\ Eligible(FileUniverse[i].name)
         /\ fs[i].kind \in {"binary", "locked"}

\* What main has done by the time a dry run returns, given whether the root
\* existed when main started
DryRunTrace(existed, indexFlag) ==
    (IF existed THEN <<>> ELSE <<"makedirs">>)
      \o (IF indexFlag THEN <<"index">> ELSE <<>>)
      \o <<"dry_run_report">>

IsPrefix(s, t) == Len(s) <= Len(t) /\ s = SubSeq(t, 1, Len(s))

\* C25: a run of main with --dry-run never leaves the path parse, root,
\* index, report: the root exists from the second step on (created when it was
\* absent), the index is built and saved before the report exactly when --index
\* was given, the report is the last thing done and main returns normally
\* after it, and the agent is never created, MCP tools are never registered
\* and the input loop is never entered.
C25_DryRunOrdering ==
    [][(session' # NoSession /\ session'.args.dryRun) =>
          /\ session'.at \in {"parsed", "rooted", "indexed", "returned"}
          /\ Range(session'.done) \cap {"create_agent", "register_mcp_tools"} = {}
          /\ session'.at # "parsed" => rootExists'
          /\ session.at = "parsed" =>
                /\ (("makedirs" \in Range(session'.done)) <=> ~rootExists)
                /\ fs' = fs
          /\ \E existed \in BOOLEAN :
                IsPrefix(session'.done, DryRunTrace(existed, session'.args.index))
          /\ session'.at \in {"indexed", "returned"} =>
                (("index" \in Range(session'.done)) <=> session'.args.index)
          /\ (session.at = "rooted" /\ session'.args.index) =>
                /\ index' = BuildIndex(fs)
                /\ indexFile' = [exists |-> TRUE, toks |-> Dump(index')]
          /\ session'.at = "returned" =>
                /\ session'.done[Len(session'.done)] = "dry_run_report"
                /\ out'.op = "dry_run"
                /\ out'.status = "ok"
                /\ out'.results = DryRunFiles']_vars

\* A dry run with --index that started without a root has returned: the root
\* was created, the index built and saved, the report made
C25_Witness ==
    /\ session # NoSession
    /\ session.app = "main"
    /\ session.at = "returned"
    /\ session.args.dryRun
    /\ session.args.index
    /\ session.done = <<"makedirs", "index", "dry_run_report">>
    /\ indexFile.exists

\* A dry run without --index over an existing root with files has returned
C25_PlainWitness ==
    /\ session # NoSession
    /\ session.at = "returned"
    /\ ~session.args.index
    /\ session.done = <<"dry_run_report">>
    /\ Len(out.results) >= 2
    /\ index = NoIndex

====
